---- MODULE Spec2Model ----
(***************************************************************************)
(* Model of the smart-home API of home/views.py: the device registry       *)
(* (DeviceViewSet), the control endpoint, the assistant endpoint, the      *)
(* value validation, the action applier and the audit logger.              *)
(*                                                                         *)
(* Every request handler is one action; the store is the pair              *)
(* (devices, logs) plus the id counter of the Device table.  The variable  *)
(* `last` records the request handled last and its outcome.                *)
(*                                                                         *)
(* For the behaviour of requests served concurrently, the control and the  *)
(* assistant handler are also given as the sequence of their database      *)
(* statements (load, save, look up for the log, insert the log); `reqs`    *)
(* holds the requests in progress.  `view` is the body of the last answer  *)
(* of the log endpoints.                                                   *)
(***************************************************************************)
EXTENDS Integers, Sequences, FiniteSets, TLC

VARIABLES devices, nextId, logs, last, steps, vin, vout, reqs, view

vars == <<devices, nextId, logs, last, steps, vin, vout, reqs, view>>

(***************************************************************************)
(* Bound of the model: the number of requests handled in a run.            *)
(***************************************************************************)
MaxSteps == 3

(***************************************************************************)
(* Request values.  A JSON value is absent (None), an integer, a float     *)
(* (kept in tenths), a string or a boolean.                                *)
(***************************************************************************)
NoValue == [k |-> "none", n |-> 0, s |-> ""]

IntV(i) == [k |-> "int", n |-> i, s |-> ""]

FloatV(t) == [k |-> "float", n |-> t, s |-> ""]

StrV(x) == [k |-> "str", n |-> 0, s |-> x]

BoolV(b) == [k |-> "bool", n |-> IF b THEN 1 ELSE 0, s |-> ""]

\* float(value): the number in tenths, or a failure (ValueError / TypeError).
\* float("nan") is the float NaN (nan = TRUE), which is no failure.
ParseStr(x) ==
    CASE x = "20" -> [ok |-> TRUE, t |-> 200, nan |-> FALSE]
      [] x = "16" -> [ok |-> TRUE, t |-> 160, nan |-> FALSE]
      [] x = "nan" -> [ok |-> TRUE, t |-> 0, nan |-> TRUE]
      [] OTHER -> [ok |-> FALSE, t |-> 0, nan |-> FALSE]

ToFloat(v) ==
    CASE v.k = "int" -> [ok |-> TRUE, t |-> v.n * 10, nan |-> FALSE]
      [] v.k = "float" -> [ok |-> TRUE, t |-> v.n, nan |-> FALSE]
      [] v.k = "bool" -> [ok |-> TRUE, t |-> v.n * 10, nan |-> FALSE]
      [] v.k = "str" -> ParseStr(v.s)
      [] OTHER -> [ok |-> FALSE, t |-> 0, nan |-> FALSE]

\* str(value)
TenthsStr(t) ==
    IF t < 0
    THEN "-" \o ToString((-t) \div 10) \o "." \o ToString((-t) % 10)
    ELSE ToString(t \div 10) \o "." \o ToString(t % 10)

IntStr(i) == IF i < 0 THEN "-" \o ToString(-i) ELSE ToString(i)

PyStr(v) ==
    CASE v.k = "int" -> IntStr(v.n)
      [] v.k = "float" -> TenthsStr(v.n)
      [] v.k = "str" -> v.s
      [] v.k = "bool" -> IF v.n = 1 THEN "True" ELSE "False"
      [] OTHER -> "None"

\* str.lower() on the names and types the model uses.
Lower(x) ==
    CASE x = "AC" -> "ac"
      [] x = "Ac" -> "ac"
      [] x = "Fan" -> "fan"
      [] x = "FAN" -> "fan"
      [] x = "Thermostat" -> "thermostat"
      [] x = "Heater" -> "heater"
      [] x = "Light" -> "light"
      [] x = "Lamp" -> "lamp"
      [] OTHER -> x

(***************************************************************************)
(* DEVICE_LIMITS                                                           *)
(***************************************************************************)
LimitedTypes == {"thermostat", "ac", "heater", "fan"}

DEVICE_LIMITS(t) ==
    CASE t = "thermostat" -> [min |-> 16, max |-> 32, unit |-> "°C"]
      [] t = "ac" -> [min |-> 16, max |-> 30, unit |-> "°C"]
      [] t = "heater" -> [min |-> 18, max |-> 35, unit |-> "°C"]
      [] t = "fan" -> [min |-> 0, max |-> 5, unit |-> "speed"]

RangeMsg(device, limits) ==
    device.name \o " " \o limits.unit \o " must be between "
        \o ToString(limits.min) \o " and " \o ToString(limits.max)

\* Variant: the bounds are exclusive.
validate_device_value_Exclusive(device, value) ==
    LET device_type == Lower(device.device_type) IN
    IF device_type \in LimitedTypes
    THEN LET limits == DEVICE_LIMITS(device_type)
             f == ToFloat(value)
         IN  IF ~f.ok
             THEN [ok |-> FALSE, err |-> "Invalid value: must be a number"]
             ELSE IF ~f.nan /\ (f.t <= limits.min * 10 \/ f.t >= limits.max * 10)
                  THEN [ok |-> FALSE, err |-> RangeMsg(device, limits)]
                  ELSE [ok |-> TRUE, err |-> ""]
    ELSE [ok |-> TRUE, err |-> ""]

\* validate_device_value(device, value) -> (is_valid, error_message);
\* both comparisons of the range check are false for NaN.
validate_device_value(device, value) ==
    LET device_type == Lower(device.device_type) IN
    IF device_type \in LimitedTypes
    THEN LET limits == DEVICE_LIMITS(device_type)
             f == ToFloat(value)
         IN  IF ~f.ok
             THEN [ok |-> FALSE, err |-> "Invalid value: must be a number"]
             ELSE IF ~f.nan /\ (f.t < limits.min * 10 \/ f.t > limits.max * 10)
                  THEN [ok |-> FALSE, err |-> RangeMsg(device, limits)]
                  ELSE [ok |-> TRUE, err |-> ""]
    ELSE [ok |-> TRUE, err |-> ""]

\* Variant: a value that is present is validated for every action.
apply_device_action_ValidateAll(device, action, value) ==
    LET r == IF value.k # "none"
             THEN validate_device_value(device, value)
             ELSE [ok |-> TRUE, err |-> ""]
    IN
    IF ~r.ok
    THEN [ok |-> FALSE, err |-> r.err, saved |-> FALSE, device |-> device]
    ELSE IF action = "turn_on"
    THEN [ok |-> TRUE, err |-> "", saved |-> TRUE,
          device |-> [device EXCEPT !.status = "on"]]
    ELSE IF action = "turn_off"
    THEN [ok |-> TRUE, err |-> "", saved |-> TRUE,
          device |-> [device EXCEPT !.status = "off"]]
    ELSE IF action \in {"set_temperature", "set_speed"} /\ value.k # "none"
    THEN [ok |-> TRUE, err |-> "", saved |-> TRUE,
          device |-> [device EXCEPT !.status = PyStr(value)]]
    ELSE [ok |-> FALSE, err |-> "Invalid action or missing value",
          saved |-> FALSE, device |-> device]

\* Variant: the value is tested for truth (`and value`), so 0 counts as absent.
apply_device_action_Truthy(device, action, value) ==
    IF action = "turn_on"
    THEN [ok |-> TRUE, err |-> "", saved |-> TRUE,
          device |-> [device EXCEPT !.status = "on"]]
    ELSE IF action = "turn_off"
    THEN [ok |-> TRUE, err |-> "", saved |-> TRUE,
          device |-> [device EXCEPT !.status = "off"]]
    ELSE IF /\ action \in {"set_temperature", "set_speed"}
            /\ value.k # "none"
            /\ ~(value.k \in {"int", "float"} /\ value.n = 0)
    THEN LET r == validate_device_value(device, value) IN
         IF ~r.ok
         THEN [ok |-> FALSE, err |-> r.err, saved |-> FALSE, device |-> device]
         ELSE [ok |-> TRUE, err |-> "", saved |-> TRUE,
               device |-> [device EXCEPT !.status = PyStr(value)]]
    ELSE [ok |-> FALSE, err |-> "Invalid action or missing value",
          saved |-> FALSE, device |-> device]

\* Variant: the status is assigned and saved before the value is validated.
apply_device_action_SaveFirst(device, action, value) ==
    IF action = "turn_on"
    THEN [ok |-> TRUE, err |-> "", saved |-> TRUE,
          device |-> [device EXCEPT !.status = "on"]]
    ELSE IF action = "turn_off"
    THEN [ok |-> TRUE, err |-> "", saved |-> TRUE,
          device |-> [device EXCEPT !.status = "off"]]
    ELSE IF action \in {"set_temperature", "set_speed"} /\ value.k # "none"
    THEN LET r == validate_device_value(device, value) IN
         [ok |-> r.ok, err |-> r.err, saved |-> TRUE,
          device |-> [device EXCEPT !.status = PyStr(value)]]
    ELSE [ok |-> FALSE, err |-> "Invalid action or missing value",
          saved |-> FALSE, device |-> device]

\* apply_device_action(device, action, value) -> (success, error_message);
\* `device` in the result is the record as saved (saved = device.save() ran).
apply_device_action(device, action, value) ==
    IF action = "turn_on"
    THEN [ok |-> TRUE, err |-> "", saved |-> TRUE,
          device |-> [device EXCEPT !.status = "on"]]
    ELSE IF action = "turn_off"
    THEN [ok |-> TRUE, err |-> "", saved |-> TRUE,
          device |-> [device EXCEPT !.status = "off"]]
    ELSE IF action \in {"set_temperature", "set_speed"} /\ value.k # "none"
    THEN LET r == validate_device_value(device, value) IN
         IF ~r.ok
         THEN [ok |-> FALSE, err |-> r.err, saved |-> FALSE, device |-> device]
         ELSE [ok |-> TRUE, err |-> "", saved |-> TRUE,
               device |-> [device EXCEPT !.status = PyStr(value)]]
    ELSE [ok |-> FALSE, err |-> "Invalid action or missing value",
          saved |-> FALSE, device |-> device]

(***************************************************************************)
(* Audit logger.  Log.value is a FloatField: None is stored as NULL, a     *)
(* number or numeric string as its float, anything else makes the insert   *)
(* raise ValueError, which log_action does not catch.                      *)
(***************************************************************************)
LogValue(value) ==
    IF value.k = "none"
    THEN [ok |-> TRUE, v |-> [null |-> TRUE, t |-> 0, nan |-> FALSE]]
    ELSE LET f == ToFloat(value) IN
         [ok |-> f.ok, v |-> [null |-> FALSE, t |-> f.t, nan |-> f.nan]]

\* Variant: an entry equal to the newest one is not written again.
log_action_Dedup(devs, lg, device_id, action, value) ==
    IF device_id \notin DOMAIN devs
    THEN [raised |-> FALSE, logs |-> lg]
    ELSE LET lv == LogValue(value)
             e == [device |-> device_id, action |-> action, value |-> lv.v]
         IN  IF ~lv.ok
             THEN [raised |-> TRUE, logs |-> lg]
             ELSE IF Len(lg) > 0 /\ lg[Len(lg)] = e
                  THEN [raised |-> FALSE, logs |-> lg]
                  ELSE [raised |-> FALSE, logs |-> Append(lg, e)]

\* log_action(device_id, action, value) on the store (devs, lg):
\* the new log table, and whether the call raised.
log_action(devs, lg, device_id, action, value) ==
    IF device_id \notin DOMAIN devs
    THEN [raised |-> FALSE, logs |-> lg]
    ELSE LET lv == LogValue(value) IN
         IF ~lv.ok
         THEN [raised |-> TRUE, logs |-> lg]
         ELSE [raised |-> FALSE,
               logs |-> Append(lg, [device |-> device_id, action |-> action,
                                    value |-> lv.v])]

(***************************************************************************)
(* Command interpreter.  The reply of the language service is untrusted    *)
(* text; what parse_command_with_gemini distinguishes is whether the call  *)
(* raised, whether a {...} object was found, whether it is valid JSON, and *)
(* which keys the object has.                                              *)
(***************************************************************************)
Reply(kind, hn, n, ha, a, v) ==
    [kind |-> kind, has_name |-> hn, device_name |-> n,
     has_action |-> ha, action |-> a, value |-> v]

ParsedNone ==
    [null |-> TRUE, has_name |-> FALSE, device_name |-> "",
     has_action |-> FALSE, action |-> "", value |-> NoValue]

\* parse_command_with_gemini(command_text), given the service's reply
parse_command_with_gemini(reply) ==
    IF reply.kind \in {"nokey", "unreachable", "nojson", "badjson"}
    THEN ParsedNone
    ELSE IF reply.has_name /\ reply.has_action
         THEN [null |-> FALSE, has_name |-> TRUE,
               device_name |-> reply.device_name,
               has_action |-> TRUE, action |-> reply.action,
               value |-> reply.value]
         ELSE ParsedNone

(***************************************************************************)
(* Requests and responses.                                                 *)
(***************************************************************************)
Users == {"alice", "bob"}

Ids == 1 .. MaxSteps

Device(u, n, t, s) == [user |-> u, name |-> n, device_type |-> t, status |-> s]

\* The request handled last: the operation, the requesting user, the device
\* acted on or asked for (0: none), the device name an assistant command was
\* resolved with, the action and value handed to apply_device_action (empty
\* when it was not called), the HTTP status code, what apply_device_action
\* returned ("none": not called), whether a device lookup was made, and the
\* error text of the response; `before` is the stored status of that device
\* when the request arrived ("" without a device), `parsed` what the command
\* interpreter returned ("": not run, "null", "ok").
Outcome(op, u, id, n, a, v, code, applied, looked, err) ==
    [op |-> op, user |-> u, id |-> id, name |-> n, action |-> a, value |-> v,
     code |-> code, applied |-> applied, looked |-> looked, err |-> err,
     before |-> IF id \in DOMAIN devices THEN devices[id].status ELSE "",
     parsed |-> ""]

NoRequest ==
    [op |-> "init", user |-> "", id |-> 0, name |-> "", action |-> "",
     value |-> NoValue, code |-> 0, applied |-> "none", looked |-> FALSE,
     err |-> "", before |-> "", parsed |-> ""]

Interpreted(o, p) == [o EXCEPT !.parsed = p]

\* Variant: the lookup is by primary key alone.
Owned_AnyUser(u, id) == id \in DOMAIN devices

\* get_queryset / get_object_or_404(Device, pk=pk, user=request.user)
Owned(u, id) == id \in DOMAIN devices /\ devices[id].user = u

\* Log rows cascade with their device.
CascadeLogs(lg, id) == SelectSeq(lg, LAMBDA e : e.device # id)

\* POST /devices/ : perform_create, status defaults to "off"
create(u, n, t, has_status, s) ==
    /\ steps < MaxSteps
    /\ steps' = steps + 1
    /\ devices' = devices @@ (nextId :> Device(u, n, t, IF has_status THEN s ELSE "off"))
    /\ nextId' = nextId + 1
    /\ last' = Outcome("create", u, nextId, n, "", NoValue, 201, "none", FALSE, "")
    /\ UNCHANGED <<logs, vin, vout, reqs, view>>

\* The serializer's update: every supplied writable field is stored.
SerializerUpdate(device, d) ==
    [device EXCEPT
        !.name = IF d.has_name THEN d.name ELSE @,
        !.device_type = IF d.has_type THEN d.device_type ELSE @,
        !.status = IF d.has_status THEN d.status ELSE @]

UpdateRequest(op, u, id, partial, d) ==
    /\ steps < MaxSteps
    /\ steps' = steps + 1
    /\ IF ~Owned(u, id)
       THEN /\ last' = Outcome(op, u, id, "", "", NoValue, 404, "none", TRUE, "")
            /\ UNCHANGED devices
       ELSE IF ~partial /\ (~d.has_name \/ ~d.has_type)
       THEN /\ last' = Outcome(op, u, id, "", "", NoValue, 400, "none", TRUE,
                               "This field is required.")
            /\ UNCHANGED devices
       ELSE /\ devices' = [devices EXCEPT ![id] = SerializerUpdate(@, d)]
            /\ last' = Outcome(op, u, id, "", "", NoValue, 200, "none", TRUE, "")
    /\ UNCHANGED <<nextId, logs, vin, vout, reqs, view>>

\* PUT /devices/<id>/
update(u, id, d) == UpdateRequest("update", u, id, FALSE, d)

\* PATCH /devices/<id>/
partial_update(u, id, d) == UpdateRequest("partial_update", u, id, TRUE, d)

\* DELETE /devices/<id>/
destroy(u, id) ==
    /\ steps < MaxSteps
    /\ steps' = steps + 1
    /\ IF ~Owned(u, id)
       THEN /\ last' = Outcome("destroy", u, id, "", "", NoValue, 404, "none", TRUE, "")
            /\ UNCHANGED <<devices, logs>>
       ELSE /\ devices' = [i \in DOMAIN devices \ {id} |-> devices[i]]
            /\ logs' = CascadeLogs(logs, id)
            /\ last' = Outcome("destroy", u, id, "", "", NoValue, 204, "none", TRUE, "")
    /\ UNCHANGED <<nextId, vin, vout, reqs, view>>

\* The common tail of both dispatch entry points: apply, then log, then respond.
\* device.save() is committed when log_action runs (the views open no
\* transaction), so a log_action that raises leaves the new status stored and
\* the request answered with a server error (500).
ApplyAndLog(op, u, id, n, a, v, p) ==
    LET r == apply_device_action(devices[id], a, v)
        devs == IF r.saved THEN [devices EXCEPT ![id] = r.device] ELSE devices
    IN  IF ~r.ok
        THEN /\ devices' = devs
             /\ logs' = logs
             /\ last' = Interpreted(Outcome(op, u, id, n, a, v, 400, "failed", TRUE, r.err), p)
        ELSE LET l == log_action(devs, logs, id, a, v) IN
             /\ devices' = devs
             /\ logs' = l.logs
             /\ last' = Interpreted(Outcome(op, u, id, n, a, v,
                                            IF l.raised THEN 500 ELSE 200, "ok", TRUE, ""),
                                    p)

\* POST /devices/<id>/control/
control(u, id, a, v) ==
    /\ steps < MaxSteps
    /\ steps' = steps + 1
    /\ IF ~Owned(u, id)
       THEN /\ last' = Outcome("control", u, id, "", "", NoValue, 404, "none", TRUE, "")
            /\ UNCHANGED <<devices, logs>>
       ELSE ApplyAndLog("control", u, id, "", a, v, "")
    /\ UNCHANGED <<nextId, vin, vout, reqs, view>>

\* Variant: the name lookup is not scoped to the requesting user.
NameMatches_AnyOwner(u, device_name) ==
    {i \in DOMAIN devices : Lower(devices[i].name) = Lower(device_name)}

\* Device.objects.filter(name__iexact=device_name, user=request.user)
NameMatches(u, device_name) ==
    {i \in DOMAIN devices :
        devices[i].user = u /\ Lower(devices[i].name) = Lower(device_name)}

\* .first(): the match with the lowest primary key
First(S) == CHOOSE i \in S : \A j \in S : i <= j

\* Variant: the view does not test the interpreter's result.
NotUnderstood_Unchecked(parsed) == FALSE

\* if not parsed or "device_name" not in parsed or "action" not in parsed
NotUnderstood(parsed) == parsed.null \/ ~parsed.has_name \/ ~parsed.has_action

\* POST /assistant/command/
assistant(u, has_command, reply) ==
    /\ steps < MaxSteps
    /\ steps' = steps + 1
    /\ IF ~has_command
       THEN /\ last' = Outcome("assistant", u, 0, "", "", NoValue, 400, "none",
                               FALSE, "Missing command")
            /\ UNCHANGED <<devices, logs>>
       ELSE LET parsed == parse_command_with_gemini(reply)
                p == IF parsed.null THEN "null" ELSE "ok"
            IN
            IF NotUnderstood(parsed)
            THEN /\ last' = Interpreted(
                              Outcome("assistant", u, 0, "", "", NoValue, 400, "none",
                                      FALSE, "Could not understand command. Please try again."),
                              p)
                 /\ UNCHANGED <<devices, logs>>
            ELSE LET found == NameMatches(u, parsed.device_name) IN
                 IF found = {}
                 THEN /\ last' = Interpreted(
                                   Outcome("assistant", u, 0, parsed.device_name,
                                           "", NoValue, 404, "none", TRUE,
                                           "Device not found"),
                                   p)
                      /\ UNCHANGED <<devices, logs>>
                 ELSE ApplyAndLog("assistant", u, First(found), parsed.device_name,
                                  parsed.action, parsed.value, p)
    /\ UNCHANGED <<nextId, vin, vout, reqs, view>>

(***************************************************************************)
(* Pure application of the validation and of the action applier to one     *)
(* input (vin); the results are kept in vout.                              *)
(***************************************************************************)
NoInput == [device |-> Device("", "", "", ""), action |-> "", value |-> NoValue]

NoOutput == [done |-> FALSE, ok |-> FALSE, err |-> "", saved |-> FALSE, status |-> ""]

Validate ==
    /\ vin # NoInput
    /\ ~vout.validate.done
    /\ LET r == validate_device_value(vin.device, vin.value) IN
       vout' = [vout EXCEPT !.validate =
                   [done |-> TRUE, ok |-> r.ok, err |-> r.err, saved |-> FALSE,
                    status |-> vin.device.status]]
    /\ UNCHANGED <<devices, nextId, logs, last, steps, vin, reqs, view>>

Apply ==
    /\ vin # NoInput
    /\ ~vout.apply.done
    /\ LET r == apply_device_action(vin.device, vin.action, vin.value) IN
       vout' = [vout EXCEPT !.apply =
                   [done |-> TRUE, ok |-> r.ok, err |-> r.err, saved |-> r.saved,
                    status |-> r.device.status]]
    /\ UNCHANGED <<devices, nextId, logs, last, steps, vin, reqs, view>>

(***************************************************************************)
(* Inputs of the requests.                                                 *)
(***************************************************************************)
Actions == {"turn_on", "turn_off", "set_temperature", "set_speed", "set_brightness"}

\* The body of a PUT (name and type required by the serializer, status
\* optional) or of a PATCH (one field).
UpdateData(N, T, S) ==
    [has_name : {TRUE}, name : N, has_type : {TRUE}, device_type : T,
     has_status : {TRUE}, status : S]
    \cup {[has_name |-> TRUE, name |-> n, has_type |-> FALSE, device_type |-> "",
           has_status |-> FALSE, status |-> ""] : n \in N}
    \cup {[has_name |-> FALSE, name |-> "", has_type |-> TRUE, device_type |-> t,
           has_status |-> FALSE, status |-> ""] : t \in T}
    \cup {[has_name |-> FALSE, name |-> "", has_type |-> FALSE, device_type |-> "",
           has_status |-> TRUE, status |-> s] : s \in S}

\* The replies of the language service: failures, objects lacking a required
\* key, and complete objects naming a device in AN with a command of C.
Replies(AN, C) ==
    {Reply(k, FALSE, "", FALSE, "", NoValue) :
        k \in {"nokey", "unreachable", "nojson", "badjson", "object"}}
    \cup {Reply("object", TRUE, n, FALSE, "", NoValue) : n \in AN}
    \cup {Reply("object", FALSE, "", TRUE, c[1], c[2]) : c \in C}
    \cup {Reply("object", TRUE, n, TRUE, c[1], c[2]) : n \in AN, c \in C}

\* The requests of users U on devices named from N, of types T, with given
\* statuses S, commands C (<<action, value>>) and assistant device names AN.
Requests(U, N, T, S, C, AN) ==
    \/ \E u \in U, n \in N, t \in T, hs \in BOOLEAN, s \in S : create(u, n, t, hs, s)
    \/ \E u \in U, id \in Ids, d \in UpdateData(N, T, S) : update(u, id, d)
    \/ \E u \in U, id \in Ids, d \in UpdateData(N, T, S) : partial_update(u, id, d)
    \/ \E u \in U, id \in Ids : destroy(u, id)
    \/ \E u \in U, id \in Ids, c \in C : control(u, id, c[1], c[2])
    \/ \E u \in U, hc \in BOOLEAN, r \in Replies(AN, C) : assistant(u, hc, r)

Init ==
    /\ devices = <<>>
    /\ nextId = 1
    /\ logs = <<>>
    /\ last = NoRequest
    /\ steps = 0
    /\ vin = NoInput
    /\ vout = [validate |-> NoOutput, apply |-> NoOutput]
    /\ reqs = <<>>
    /\ view = <<>>

\* Control and registry: one device name, a limited and an unlimited type.
Commands ==
    {<<"turn_on", NoValue>>, <<"turn_on", StrV("abc")>>, <<"turn_off", IntV(20)>>,
     <<"set_temperature", NoValue>>, <<"set_temperature", IntV(10)>>,
     <<"set_temperature", IntV(20)>>, <<"set_speed", StrV("abc")>>,
     <<"set_brightness", IntV(20)>>, <<"", NoValue>>}

Next == Requests(Users, {"AC"}, {"ac", "light"}, {"24"}, Commands, {"AC", "Lamp"})

Spec == Init /\ [][Next]_vars

\* Name resolution: names equal up to case, one type, on/off commands.
Names == {"AC", "ac", "Fan"}

NameCommands == {<<"turn_on", NoValue>>, <<"turn_off", NoValue>>}

NextNames ==
    Requests(Users, Names, {"light"}, {"on"}, NameCommands, Names \cup {"Lamp", "FAN"})

SpecNames == Init /\ [][NextNames]_vars

\* The pure functions on every combination of the inputs below.
PureTypes ==
    {"thermostat", "Thermostat", "ac", "AC", "heater", "Heater", "fan", "FAN",
     "light", "sensor"}

PureValues ==
    {NoValue, StrV("abc"), StrV("20"), StrV("16")}
    \cup {IntV(i) : i \in {-1, 0, 5, 6, 15, 16, 17, 18, 30, 31, 32, 33, 35, 36}}
    \cup {FloatV(t) : t \in {-1, 0, 50, 51, 159, 160, 179, 180, 300, 301, 320, 321,
                             350, 351}}

PureInputs ==
    [device : {Device("alice", "Dev", t, s) : t \in PureTypes, s \in {"off", "on", "24"}},
     action : Actions \cup {""},
     value : PureValues]

InitPure ==
    /\ devices = <<>>
    /\ nextId = 1
    /\ logs = <<>>
    /\ last = NoRequest
    /\ steps = 0
    /\ vin \in PureInputs
    /\ vout = [validate |-> NoOutput, apply |-> NoOutput]
    /\ reqs = <<>>
    /\ view = <<>>

NextPure == Validate \/ Apply

SpecPure == InitPure /\ [][NextPure]_vars

(***************************************************************************)
(* The control and the assistant handler, statement by statement.  Between *)
(* two statements of a request the statements of other requests may run:   *)
(* the views take no lock (no select_for_update) and open no transaction.  *)
(*   "apply": the device is loaded; apply_device_action is to run          *)
(*   "log"  : device.save() is committed; log_action is to look it up      *)
(*   "insert": log_action has found the device; the Log row is to be made  *)
(***************************************************************************)
InFlight(op, u, id, n, a, v, p) ==
    [op |-> op, user |-> u, id |-> id, name |-> n, action |-> a, value |-> v,
     parsed |-> p, pc |-> "apply", device |-> devices[id],
     before |-> devices[id].status]

\* The response of the request in progress r.
Respond(r, code, applied, err) ==
    [op |-> r.op, user |-> r.user, id |-> r.id, name |-> r.name,
     action |-> r.action, value |-> r.value, code |-> code, applied |-> applied,
     looked |-> TRUE, err |-> err, before |-> r.before, parsed |-> r.parsed]

Finish(k) == [i \in DOMAIN reqs \ {k} |-> reqs[i]]

\* Model.save(): UPDATE of every field of the row with this primary key and,
\* when no row was updated, INSERT of the row.
Save(devs, id, device) ==
    [i \in DOMAIN devs \cup {id} |-> IF i = id THEN device ELSE devs[i]]

\* control, line 118: get_object_or_404
begin_control(u, id, a, v) ==
    /\ steps < MaxSteps
    /\ steps' = steps + 1
    /\ IF ~Owned(u, id)
       THEN /\ last' = Outcome("control", u, id, "", "", NoValue, 404, "none", TRUE, "")
            /\ UNCHANGED reqs
       ELSE /\ reqs' = reqs @@ ((steps + 1) :> InFlight("control", u, id, "", a, v, ""))
            /\ UNCHANGED last
    /\ UNCHANGED <<devices, nextId, logs, vin, vout, view>>

\* post, lines 148-181: interpretation and device lookup
begin_assistant(u, has_command, reply) ==
    /\ steps < MaxSteps
    /\ steps' = steps + 1
    /\ LET parsed == parse_command_with_gemini(reply)
           p == IF parsed.null THEN "null" ELSE "ok"
       IN
       IF ~has_command
       THEN /\ last' = Outcome("assistant", u, 0, "", "", NoValue, 400, "none",
                               FALSE, "Missing command")
            /\ UNCHANGED reqs
       ELSE
       IF NotUnderstood(parsed)
       THEN /\ last' = Interpreted(
                         Outcome("assistant", u, 0, "", "", NoValue, 400, "none",
                                 FALSE, "Could not understand command. Please try again."),
                         p)
            /\ UNCHANGED reqs
       ELSE LET found == NameMatches(u, parsed.device_name) IN
            IF found = {}
            THEN /\ last' = Interpreted(
                              Outcome("assistant", u, 0, parsed.device_name,
                                      "", NoValue, 404, "none", TRUE,
                                      "Device not found"),
                              p)
                 /\ UNCHANGED reqs
            ELSE /\ reqs' = reqs @@ ((steps + 1) :>
                                InFlight("assistant", u, First(found),
                                         parsed.device_name, parsed.action,
                                         parsed.value, p))
                 /\ UNCHANGED last
    /\ UNCHANGED <<devices, nextId, logs, vin, vout, view>>

\* apply_device_action on the loaded device; device.save() writes the loaded
\* record with its new status.
step_apply(k) ==
    /\ k \in DOMAIN reqs
    /\ reqs[k].pc = "apply"
    /\ LET r == apply_device_action(reqs[k].device, reqs[k].action, reqs[k].value) IN
       /\ devices' = IF r.saved THEN Save(devices, reqs[k].id, r.device) ELSE devices
       /\ IF ~r.ok
          THEN /\ last' = Respond(reqs[k], 400, "failed", r.err)
               /\ reqs' = Finish(k)
          ELSE /\ reqs' = [reqs EXCEPT ![k].pc = "log", ![k].device = r.device]
               /\ UNCHANGED last
    /\ UNCHANGED <<nextId, logs, steps, vin, vout, view>>

\* log_action, line 5: Device.objects.get(id=device_id); DoesNotExist is
\* caught and the log skipped.
step_log_get(k) ==
    /\ k \in DOMAIN reqs
    /\ reqs[k].pc = "log"
    /\ IF reqs[k].id \notin DOMAIN devices
       THEN /\ last' = Respond(reqs[k], 200, "ok", "")
            /\ reqs' = Finish(k)
       ELSE /\ reqs' = [reqs EXCEPT ![k].pc = "insert"]
            /\ UNCHANGED last
    /\ UNCHANGED <<devices, nextId, logs, steps, vin, vout, view>>

\* log_action, line 6: Log.objects.create(device=device, ...).  A value that
\* is no number raises ValueError; a device row deleted since the lookup makes
\* the foreign key fail (IntegrityError); neither is caught.
step_log_insert(k) ==
    /\ k \in DOMAIN reqs
    /\ reqs[k].pc = "insert"
    /\ LET lv == LogValue(reqs[k].value) IN
       IF ~lv.ok \/ reqs[k].id \notin DOMAIN devices
       THEN /\ last' = Respond(reqs[k], 500, "ok", "")
            /\ UNCHANGED logs
       ELSE /\ logs' = Append(logs, [device |-> reqs[k].id, action |-> reqs[k].action,
                                     value |-> lv.v])
            /\ last' = Respond(reqs[k], 200, "ok", "")
    /\ reqs' = Finish(k)
    /\ UNCHANGED <<devices, nextId, steps, vin, vout, view>>

ConcNames == {"AC", "Fan"}

ConcCommands == {<<"turn_on", NoValue>>, <<"set_temperature", IntV(20)>>}

ConcData == UpdateData(ConcNames, {"light"}, {"24"})

NextConc ==
    \/ \E n \in ConcNames, hs \in BOOLEAN : create("alice", n, "light", hs, "24")
    \/ \E id \in Ids, d \in ConcData : update("alice", id, d)
    \/ \E id \in Ids, d \in ConcData : partial_update("alice", id, d)
    \/ \E id \in Ids : destroy("alice", id)
    \/ \E id \in Ids, c \in ConcCommands : begin_control("alice", id, c[1], c[2])
    \/ \E hc \in BOOLEAN, r \in Replies({"AC"}, ConcCommands) :
           begin_assistant("alice", hc, r)
    \/ \E k \in Ids : step_apply(k)
    \/ \E k \in Ids : step_log_get(k)
    \/ \E k \in Ids : step_log_insert(k)

SpecConc == Init /\ [][NextConc]_vars

(***************************************************************************)
(* LogViewSet: the read-only log endpoints.  The queryset is every Log row, *)
(* newest first.  A row is named by its rank among the stored rows (the     *)
(* model keeps no primary keys of Log rows; ranks and keys correspond one   *)
(* to one).                                                                 *)
(***************************************************************************)
Reverse(q) == [i \in 1 .. Len(q) |-> q[Len(q) + 1 - i]]

\* Log.objects.all().order_by("-timestamp")
LogQueryset == Reverse(logs)

\* GET /logs/
list_logs(u) ==
    /\ steps < MaxSteps
    /\ steps' = steps + 1
    /\ view' = LogQueryset
    /\ last' = Outcome("list_logs", u, 0, "", "", NoValue, 200, "none", FALSE, "")
    /\ UNCHANGED <<devices, nextId, logs, vin, vout, reqs>>

\* GET /logs/<pk>/
retrieve_log(u, k) ==
    /\ steps < MaxSteps
    /\ steps' = steps + 1
    /\ IF k \in DOMAIN logs
       THEN /\ view' = <<logs[k]>>
            /\ last' = Outcome("retrieve_log", u, 0, "", "", NoValue, 200, "none", FALSE, "")
       ELSE /\ view' = <<>>
            /\ last' = Outcome("retrieve_log", u, 0, "", "", NoValue, 404, "none", FALSE, "")
    /\ UNCHANGED <<devices, nextId, logs, vin, vout, reqs>>

LogCommands == {<<"turn_on", NoValue>>, <<"set_temperature", IntV(20)>>}

NextLogs ==
    \/ Requests(Users, {"AC"}, {"light"}, {"24"}, LogCommands, {"AC"})
    \/ \E u \in Users : list_logs(u)
    \/ \E u \in Users, k \in Ids : retrieve_log(u, k)

SpecLogs == Init /\ [][NextLogs]_vars

(***************************************************************************)
(* Requests of one user on devices of limited types, with in-range,        *)
(* out-of-range and unusual values.                                        *)
(***************************************************************************)
LimitCommands ==
    {<<"turn_on", NoValue>>,
     <<"set_temperature", IntV(20)>>, <<"set_temperature", IntV(31)>>,
     <<"set_temperature", StrV("nan")>>, <<"set_temperature", StrV("abc")>>,
     <<"set_speed", IntV(3)>>, <<"set_speed", BoolV(TRUE)>>}

NextLimits == Requests({"alice"}, {"AC"}, {"ac", "fan"}, {"24"}, LimitCommands, {"AC"})

SpecLimits == Init /\ [][NextLimits]_vars

(***************************************************************************)
(* Properties.                                                             *)
(***************************************************************************)
Dispatch == {"control", "assistant"}

StatusChanged(i) ==
    i \in DOMAIN devices /\ i \in DOMAIN devices' /\ devices'[i].status # devices[i].status

C2_FailedApplyChangesNothing ==
    [][(last'.op \in Dispatch /\ last'.applied = "failed") =>
          (devices' = devices /\ logs' = logs)]_vars

\* An "ac" device with status "24" has rejected set_temperature 10.
C2_Witness ==
    /\ last.op = "control"
    /\ last.applied = "failed"
    /\ last.code = 400
    /\ last.action = "set_temperature"
    /\ last.value = IntV(10)
    /\ last.id \in DOMAIN devices
    /\ devices[last.id].device_type = "ac"
    /\ devices[last.id].status = "24"
    /\ last.before = "24"
    /\ logs = <<>>

\* C3: every action apply_device_action applies successfully produces exactly
\* one new log entry for that device, carrying the action name.
C3_OneLogPerApply ==
    [][(last'.op \in Dispatch /\ last'.applied = "ok") =>
          /\ Len(logs') = Len(logs) + 1
          /\ SubSeq(logs', 1, Len(logs)) = logs
          /\ logs'[Len(logs')].device = last'.id
          /\ logs'[Len(logs')].action = last'.action]_vars

\* C4: a control request for a device the requesting user does not own is
\* answered not-found and changes neither the devices nor the logs; no control
\* or assistant request changes a device owned by another user.
C4_UserIsolation ==
    [][last'.op \in Dispatch =>
          /\ \A i \in DOMAIN devices :
                devices[i].user # last'.user =>
                    i \in DOMAIN devices' /\ devices'[i] = devices[i]
          /\ (last'.op = "control" /\ ~(last'.id \in DOMAIN devices
                                        /\ devices[last'.id].user = last'.user)) =>
                (last'.code = 404 /\ devices' = devices /\ logs' = logs)]_vars

\* A user has asked to control an existing device of another user.
C4_Witness ==
    /\ last.op = "control"
    /\ last.code = 404
    /\ last.id \in DOMAIN devices
    /\ devices[last.id].user # last.user

\* C5: an understood assistant command with no device of the requesting user
\* matching the name case-insensitively is answered not-found with no apply;
\* a device acted on is owned by the requesting user and matches the name
\* case-insensitively, and it is the device the name designates: when a device
\* of that user carries exactly the asked name, the device acted on carries
\* exactly that name.
C5_ResolvesDesignatedDevice ==
    (last.op = "assistant" /\ last.parsed = "ok") =>
        /\ NameMatches(last.user, last.name) = {} =>
              (last.code = 404 /\ last.applied = "none" /\ last.id = 0)
        /\ last.applied # "none" =>
              /\ last.id \in NameMatches(last.user, last.name)
              /\ (\E j \in DOMAIN devices :
                     devices[j].user = last.user /\ devices[j].name = last.name) =>
                    devices[last.id].name = last.name

\* C6: when the interpreter returns null (service unreachable, no JSON object,
\* JSON parse failure, a required key missing), the assistant request is
\* answered 400 "could not understand" without a device lookup, and changes
\* neither the devices nor the logs.
C6_NotUnderstoodTouchesNothing ==
    [][(last'.op = "assistant" /\ last'.parsed = "null") =>
          /\ last'.code = 400
          /\ last'.err = "Could not understand command. Please try again."
          /\ ~last'.looked
          /\ last'.applied = "none"
          /\ devices' = devices
          /\ logs' = logs]_vars

\* A command was not understood while the store holds a device.
C6_Witness ==
    /\ last.op = "assistant"
    /\ last.parsed = "null"
    /\ last.code = 400
    /\ devices # <<>>

\* The limits table as the claim gives it.
ClaimedLimits(t) ==
    CASE t = "thermostat" -> <<16, 32>>
      [] t = "ac" -> <<16, 30>>
      [] t = "heater" -> <<18, 35>>
      [] t = "fan" -> <<0, 5>>

Numeric(v) == v.k \in {"int", "float"}

\* The value in tenths.
Tenths(v) == IF v.k = "int" THEN v.n * 10 ELSE v.n

\* C7: for every type of the limits table, looked up by the lower-cased device
\* type, validate_device_value accepts a value equal to min or to max and
\* rejects the values one tenth or one unit below min or above max.
C7_BoundsInclusive ==
    (vout.validate.done /\ Lower(vin.device.device_type) \in LimitedTypes
        /\ Numeric(vin.value)) =>
        LET lim == ClaimedLimits(Lower(vin.device.device_type))
            t == Tenths(vin.value)
        IN  /\ t \in {lim[1] * 10, lim[2] * 10} => vout.validate.ok
            /\ t \in {lim[1] * 10 - 10, lim[1] * 10 - 1,
                      lim[2] * 10 + 1, lim[2] * 10 + 10} => ~vout.validate.ok

\* A device of type "AC" has accepted the value 30, the maximum of "ac".
C7_Witness ==
    /\ vout.validate.done
    /\ vin.device.device_type = "AC"
    /\ vin.value = IntV(30)
    /\ vout.validate.ok

\* C8: for a device type outside the limits table, validate_device_value
\* accepts every numeric value and rejects a value that is no number.
C8_UnlimitedNeedsNumber ==
    (vout.validate.done /\ Lower(vin.device.device_type) \notin LimitedTypes) =>
        /\ Numeric(vin.value) => vout.validate.ok
        /\ ~ToFloat(vin.value).ok => ~vout.validate.ok

\* C9: turn_on succeeds and leaves status "on", turn_off succeeds and leaves
\* status "off", whatever the device, its previous status and the value.
C9_OnOffAlwaysApply ==
    vout.apply.done =>
        /\ vin.action = "turn_on" =>
              (vout.apply.ok /\ vout.apply.saved /\ vout.apply.status = "on")
        /\ vin.action = "turn_off" =>
              (vout.apply.ok /\ vout.apply.saved /\ vout.apply.status = "off")

\* turn_on was applied to an "ac" device with status "24" and the value "abc".
C9_Witness ==
    /\ vout.apply.done
    /\ vin.action = "turn_on"
    /\ vin.value = StrV("abc")
    /\ vin.device.device_type = "ac"
    /\ vin.device.status = "24"
    /\ vout.apply.status = "on"

\* C10: a control request that repeats the set_temperature of the control
\* request answered 200 just before it, on the same device with the same
\* value, is answered 200 too, leaves the status as the first left it and
\* appends a second log entry equal to the first.
C10_SetTemperatureTwice ==
    [][(/\ last.op = "control" /\ last.code = 200
        /\ last.action = "set_temperature"
        /\ last'.op = "control" /\ last'.applied # "none"
        /\ last'.id = last.id
        /\ last'.action = "set_temperature"
        /\ last'.value = last.value) =>
          /\ last'.code = 200
          /\ devices'[last.id].status = devices[last.id].status
          /\ devices'[last.id].status = PyStr(last.value)
          /\ Len(logs) >= 1
          /\ logs' = Append(logs, logs[Len(logs)])
          /\ logs[Len(logs)].action = "set_temperature"
          /\ logs[Len(logs)].device = last.id]_vars

\* set_temperature 20 was applied twice in a row: status "20", two equal logs.
C10_Witness ==
    /\ last.op = "control"
    /\ last.code = 200
    /\ last.action = "set_temperature"
    /\ last.value = IntV(20)
    /\ last.before = "20"
    /\ devices[last.id].status = "20"
    /\ Len(logs) = 2
    /\ logs[1] = logs[2]
    /\ logs[2].action = "set_temperature"

\* C11: apply_device_action fails with "Invalid action or missing value",
\* leaving the device as it was, exactly when the action is none of turn_on,
\* turn_off, set_temperature, set_speed (a missing action and set_brightness
\* included), or is set_temperature or set_speed without a value; the value 0
\* is a value.
C11_InvalidActionOrMissingValue ==
    vout.apply.done =>
        LET known == {"turn_on", "turn_off", "set_temperature", "set_speed"}
            needs == {"set_temperature", "set_speed"}
            invalid == \/ vin.action \notin known
                       \/ vin.action \in needs /\ vin.value = NoValue
        IN  /\ (~vout.apply.ok /\ vout.apply.err = "Invalid action or missing value")
                  <=> invalid
            /\ invalid => (~vout.apply.saved /\ vout.apply.status = vin.device.status)
            /\ (vin.action \in {"", "set_brightness"}) => invalid
            /\ (vin.action \in needs /\ vin.value \in {IntV(0), FloatV(0)}) => ~invalid

\* set_speed 0 was applied to a fan and stored "0".
C11_Witness ==
    /\ vout.apply.done
    /\ vin.action = "set_speed"
    /\ vin.value = IntV(0)
    /\ vin.device.device_type = "fan"
    /\ vout.apply.ok
    /\ vout.apply.status = "0"

\* C12: device mutation is a critical section per device: between the load of
\* a device by one control or assistant request and that request's write, no
\* other such request has loaded the same device and not yet written it.
C12_CriticalSection ==
    \A j \in DOMAIN reqs : \A k \in DOMAIN reqs :
        (j # k /\ reqs[j].pc = "apply" /\ reqs[k].pc = "apply")
            => reqs[j].id # reqs[k].id

\* C13: a request whose status change is committed and whose device is gone
\* when its log write comes ends with the success response, with no log entry
\* made and with the stored devices as they were.
C13_DeletedBeforeLogSkips ==
    [][\A k \in DOMAIN reqs :
          (/\ reqs[k].pc \in {"log", "insert"}
           /\ reqs[k].id \notin DOMAIN devices
           /\ k \notin DOMAIN reqs')
              => (last'.code = 200 /\ logs' = logs /\ devices' = devices)]_vars

\* The string forms of the numbers within the limits of type t.
InRangeStrings(t) ==
    LET limits == DEVICE_LIMITS(t) IN
    {IntStr(i) : i \in limits.min .. limits.max}
        \cup {TenthsStr(x) : x \in (limits.min * 10) .. (limits.max * 10)}

\* C14: every status a set_temperature or set_speed request writes on a device
\* of a limited type is the string form of a number within the limits of that
\* type.
C14_LimitedStatusInRange ==
    [][(/\ steps' # steps
        /\ last'.op \in Dispatch
        /\ last'.applied = "ok"
        /\ last'.action \in {"set_temperature", "set_speed"}
        /\ Lower(devices[last'.id].device_type) \in LimitedTypes)
           => devices'[last'.id].status
                  \in InRangeStrings(Lower(devices[last'.id].device_type))]_vars

\* C15: the write of a control or assistant request leaves the stored name,
\* device type and owner of the device as they were stored just before it.
C15_ApplyWritesStatusOnly ==
    [][\A k \in DOMAIN reqs :
          (/\ reqs[k].pc = "apply"
           /\ k \in DOMAIN reqs'
           /\ reqs'[k].pc = "log"
           /\ reqs[k].id \in DOMAIN devices)
              => /\ devices'[reqs[k].id].name = devices[reqs[k].id].name
                 /\ devices'[reqs[k].id].device_type = devices[reqs[k].id].device_type
                 /\ devices'[reqs[k].id].user = devices[reqs[k].id].user]_vars

\* C16: a device id that was given out and is no longer stored (the device was
\* deleted) is never stored again.
C16_DeletedStaysDeleted ==
    [][\A i \in Ids :
          (i < nextId /\ i \notin DOMAIN devices) => i \notin DOMAIN devices']_vars

LogReads == {"list_logs", "retrieve_log"}

\* C17: what a user reads from the log endpoints are entries of devices that
\* user owns.
C17_LogReadsOwnEntries ==
    (last.op \in LogReads /\ last.code = 200) =>
        \A i \in DOMAIN view :
            /\ view[i].device \in DOMAIN devices
            /\ devices[view[i].device].user = last.user

====
